---- MODULE Spec2Model ----
(***************************************************************************)
(* A model of holders-snapshot.js (the version with --airdrop/--exclude,   *)
(* src/holders-snapshot.js lines 137-384): the unit converter              *)
(* (formatUnits, parseUnits), the command line (parseCliArgs) and main,    *)
(* whose steps are the stretches of code between two awaits.               *)
(*                                                                         *)
(* A JavaScript string is a sequence of one-character strings; a BigInt is *)
(* an integer; null is the one-element sequence Null; a Map is the         *)
(* sequence of its entries in insertion order.                             *)
(***************************************************************************)
EXTENDS Integers, Sequences, FiniteSets

---------------------------------------------------------------------------
(* Bounds of the model. *)

\* Largest raw balance of one coin object (one node of a page).
MaxBal == 2
\* Largest number of nodes on one page.
MaxNodes == 1
\* Largest number of pages the source serves before it reports a last page.
MaxPages == 2
\* Largest decimals value the metadata lookup returns.
MaxDecimals == 1
\* Largest number of entries of the balance map the allocation is applied to.
MaxHolders == 3
\* Largest raw amount and decimals the unit converter is applied to.
MaxRaw == 1100
MaxConvDecimals == 3

---------------------------------------------------------------------------
(* Strings. *)

Null == <<"null">>

Digits == <<"0", "1", "2", "3", "4", "5", "6", "7", "8", "9">>

IsDigit(c) == \E k \in 1..10 : Digits[k] = c

DigitVal(c) == (CHOOSE k \in 1..10 : Digits[k] = c) - 1

AllDigits(s, from, to) == \A k \in from..to : IsDigit(s[k])

\* BigInt.prototype.toString() of a non-negative integer.
RECURSIVE ToStr(_)
ToStr(n) == IF n < 10 THEN <<Digits[n + 1]>>
            ELSE ToStr(n \div 10) \o <<Digits[(n % 10) + 1]>>

\* BigInt(text) of a string of decimal digits (the empty string gives 0n).
RECURSIVE BigInt(_)
BigInt(s) == IF s = <<>> THEN 0
             ELSE 10 * BigInt(SubSeq(s, 1, Len(s) - 1)) + DigitVal(s[Len(s)])

\* String.prototype.padStart(n, c) and padEnd(n, c), c one character.
RECURSIVE padStart(_, _, _)
padStart(s, n, c) == IF Len(s) >= n THEN s ELSE padStart(<<c>> \o s, n, c)

RECURSIVE padEnd(_, _, _)
padEnd(s, n, c) == IF Len(s) >= n THEN s ELSE padEnd(s \o <<c>>, n, c)

\* s.replace(/0+$/, "")
RECURSIVE StripTrailingZeros(_)
StripTrailingZeros(s) ==
    IF s # <<>> /\ s[Len(s)] = "0"
    THEN StripTrailingZeros(SubSeq(s, 1, Len(s) - 1))
    ELSE s

\* String.prototype.trim(), the only white space of the model being " ".
RECURSIVE trim(_)
trim(s) == IF s # <<>> /\ s[1] = " " THEN trim(Tail(s))
           ELSE IF s # <<>> /\ s[Len(s)] = " " THEN trim(SubSeq(s, 1, Len(s) - 1))
           ELSE s

\* String.prototype.split(sep), sep one character.
RECURSIVE split(_, _)
split(s, sep) ==
    IF \A k \in 1..Len(s) : s[k] # sep THEN <<s>>
    ELSE LET k == CHOOSE i \in 1..Len(s) :
                      s[i] = sep /\ \A j \in 1..(i - 1) : s[j] # sep
         IN <<SubSeq(s, 1, k - 1)>> \o split(SubSeq(s, k + 1, Len(s)), sep)

LowerChar(c) == CASE c = "A" -> "a" [] c = "B" -> "b" [] c = "C" -> "c"
                  [] c = "D" -> "d" [] c = "E" -> "e" [] c = "F" -> "f"
                  [] OTHER -> c

\* String.prototype.toLowerCase()
toLowerCase(s) == [k \in 1..Len(s) |-> LowerChar(s[k])]

startsWith(s, p) == Len(s) >= Len(p) /\ SubSeq(s, 1, Len(p)) = p

---------------------------------------------------------------------------
(* The unit converter. *)

formatUnits(raw, decimals) ==
    IF decimals <= 0 THEN ToStr(raw)
    ELSE LET s == padStart(ToStr(raw), decimals + 1, "0")
             integerPart == SubSeq(s, 1, Len(s) - decimals)
             fractionalPart ==
                 StripTrailingZeros(SubSeq(s, Len(s) - decimals + 1, Len(s)))
         IN IF fractionalPart # <<>>
            THEN integerPart \o <<".">> \o fractionalPart
            ELSE integerPart

\* /^[0-9]+(?:\.[0-9]+)?$/.test(text)
AmountPattern(text) ==
    \E k \in 1..Len(text) :
        /\ AllDigits(text, 1, k)
        /\ \/ k = Len(text)
           \/ /\ k + 2 <= Len(text)
              /\ text[k + 1] = "."
              /\ AllDigits(text, k + 2, Len(text))

\* The result of parseUnits: the raw amount, or the error it throws.
\* parseUnits as it would be without the padEnd of the fraction.
parseUnitsNoPadEnd(amount, decimals) ==
    LET text == trim(amount)
        parts == split(text, ".")
        integerPart == parts[1]
        fractionPart == IF Len(parts) >= 2 THEN parts[2] ELSE <<>>
    IN IF ~AmountPattern(text) THEN [err |-> "InvalidAmount", value |-> 0]
       ELSE IF Len(fractionPart) > decimals
       THEN [err |-> "PrecisionOverflow", value |-> 0]
       ELSE [err |-> "none", value |-> BigInt(integerPart \o fractionPart)]

parseUnits(amount, decimals) ==
    LET text == trim(amount)
        parts == split(text, ".")
        integerPart == parts[1]
        fractionPart == IF Len(parts) >= 2 THEN parts[2] ELSE <<>>
        rawText == integerPart
                     \o (IF decimals > 0 THEN padEnd(fractionPart, decimals, "0")
                         ELSE <<>>)
    IN IF ~AmountPattern(text) THEN [err |-> "InvalidAmount", value |-> 0]
       ELSE IF Len(fractionPart) > decimals
       THEN [err |-> "PrecisionOverflow", value |-> 0]
       ELSE [err |-> "none", value |-> BigInt(rawText)]

---------------------------------------------------------------------------
(* The command line. *)

AirdropFlag == <<"-", "-", "a", "i", "r", "d", "r", "o", "p">>
ExcludeFlag == <<"-", "-", "e", "x", "c", "l", "u", "d", "e">>

\* A value of argv that is missing (undefined), empty, or another flag.
NoValue(argv, i) ==
    \/ i > Len(argv)
    \/ argv[i] = <<>>
    \/ startsWith(argv[i], <<"-", "-">>)

\* The addresses one --exclude value adds: split at ",", trimmed, lower-cased,
\* the empty ones dropped.
ExcludedOf(value) ==
    LET parts == split(value, ",")
    IN {toLowerCase(trim(parts[k])) : k \in 1..Len(parts)} \ {<<>>}

\* The loop of parseCliArgs from argv[i] on (argv[1] is the coin address).
RECURSIVE ParseFrom(_, _, _, _)
ParseFrom(argv, i, airdropAmount, excludedAddresses) ==
    IF i > Len(argv)
    THEN IF excludedAddresses # {} /\ airdropAmount = Null
         THEN [err |-> "ExcludeWithoutAirdrop", airdropAmount |-> Null,
               excludedAddresses |-> {}]
         ELSE [err |-> "none", airdropAmount |-> airdropAmount,
               excludedAddresses |-> excludedAddresses]
    ELSE IF argv[i] = AirdropFlag
    THEN IF NoValue(argv, i + 1)
         THEN [err |-> "MissingArgumentValue", airdropAmount |-> Null,
               excludedAddresses |-> {}]
         ELSE ParseFrom(argv, i + 2, trim(argv[i + 1]), excludedAddresses)
    ELSE IF argv[i] = ExcludeFlag
    THEN IF NoValue(argv, i + 1)
         THEN [err |-> "MissingArgumentValue", airdropAmount |-> Null,
               excludedAddresses |-> {}]
         ELSE ParseFrom(argv, i + 2, airdropAmount,
                        excludedAddresses \cup ExcludedOf(argv[i + 1]))
    ELSE [err |-> "UnknownArgument", airdropAmount |-> Null,
          excludedAddresses |-> {}]

\* parseCliArgs as it would be if it checked the amount's pattern itself.
parseCliArgsValidating(argv) ==
    LET parsed == IF argv = <<>> \/ trim(argv[1]) = <<>>
                       \/ startsWith(trim(argv[1]), <<"-", "-">>)
                  THEN [err |-> "MissingCoinAddress", airdropAmount |-> Null,
                        excludedAddresses |-> {}]
                  ELSE ParseFrom(argv, 2, Null, {})
    IN IF parsed.err = "none" /\ parsed.airdropAmount # Null
            /\ ~AmountPattern(parsed.airdropAmount)
       THEN [err |-> "InvalidAmount", airdropAmount |-> Null,
             excludedAddresses |-> {}]
       ELSE parsed

\* The result of parseCliArgs: the options, or the error it throws.
parseCliArgs(argv) ==
    IF argv = <<>> \/ trim(argv[1]) = <<>> \/ startsWith(trim(argv[1]), <<"-", "-">>)
    THEN [err |-> "MissingCoinAddress", airdropAmount |-> Null,
          excludedAddresses |-> {}]
    ELSE ParseFrom(argv, 2, Null, {})

---------------------------------------------------------------------------
(* Maps (insertion-ordered sequences of entries). *)

MapHas(m, address) == \E k \in 1..Len(m) : m[k].address = address

\* m.get(address) ?? 0n
MapGet(m, address) ==
    IF MapHas(m, address)
    THEN m[CHOOSE k \in 1..Len(m) : m[k].address = address].value
    ELSE 0

\* m.set(address, value): an existing key keeps its place, a new one is appended.
MapSet(m, address, value) ==
    IF MapHas(m, address)
    THEN [k \in 1..Len(m) |->
             IF m[k].address = address
             THEN [address |-> address, value |-> value]
             ELSE m[k]]
    ELSE Append(m, [address |-> address, value |-> value])

MapKeys(m) == {m[k].address : k \in 1..Len(m)}

---------------------------------------------------------------------------
(* The inputs of a run and what the GraphQL endpoint may answer. *)

Coin == <<"T">>

\* Owner addresses; "ab" and "Ab" differ in case only.
Owners == {<<"a", "b">>, <<"A", "b">>, <<"c", "d">>, <<"E", "F">>}

\* The owners the paged source serves.
SourceOwners == {<<"A", "b">>, <<"c", "d">>}

Cursors == {<<"c1">>, <<"c2">>}

\* The command lines of a whole run.
Argvs ==
    { <<Coin>>,
      <<Coin, AirdropFlag, <<" ", "1", ".", "5">>,
        ExcludeFlag, <<" ", "e", "f", " ", ",", ",", "C", "d">>>>,
      <<Coin, AirdropFlag, <<"1", ".">>>>,
      <<Coin, ExcludeFlag, <<"a", "b">>>>,
      <<Coin, AirdropFlag>>,
      <<Coin, <<"-", "-", "x">>>>,
      <<<<" ">>>> }

\* The command lines the allocation is applied to.
AirdropArgvs ==
    { <<Coin, AirdropFlag, <<"1", "0">>>>,
      <<Coin, AirdropFlag, <<"7">>, ExcludeFlag, <<"A", "B">>>>,
      <<Coin, AirdropFlag, <<"1", ".", "5">>,
        ExcludeFlag, <<" ", "e", "f", " ", ",", ",", "C", "d">>>>,
      <<Coin, AirdropFlag, <<"0">>>>,
      <<Coin, AirdropFlag, <<"7">>, ExcludeFlag, <<"a", "b", ",", "c", "D">>,
        ExcludeFlag, <<"E", "f">>>> }

\* What a page's pageInfo may hold: a next page and its cursor, no next page,
\* or no pageInfo at all.
PageInfos ==
    {[hasNextPage |-> "true", endCursor |-> c] : c \in Cursors}
      \cup {[hasNextPage |-> "false", endCursor |-> CHOOSE c \in Cursors : TRUE],
            [hasNextPage |-> "absent", endCursor |-> Null]}

SeqsUpTo(S, n) == UNION {[1..k -> S] : k \in 0..n}

\* A node of a page: its owner's address (Null when the owner has none, as for
\* an object owned by another object) and the balance of its coin.
Nodes == [address : SourceOwners, balance : 0..MaxBal]
           \cup {[address |-> Null, balance |-> 0]}

Pages == SeqsUpTo(Nodes, MaxNodes)

---------------------------------------------------------------------------
(* The state of a run. *)

VARIABLES
    argv,                 \* process.argv.slice(2); <<>> once parseCliArgs is done
    pc,                   \* where main is: the await it is at
    err,                  \* the error main threw, "none" if none
    airdropAmount,        \* parseCliArgs' results
    excludedAddresses,
    decimals,
    balances,             \* the Map of main
    cursor,
    inflight,             \* the cursor of the page request in flight
    rows,
    airdropRawByAddress,  \* NullMap, or the allocation Map
    pending,              \* the text handed to fs.writeFile
    file,                 \* holders.csv: NoFile until written
    metaRequests,         \* history: metadata requests issued
    pageRequests,         \* history: page requests issued
    pageResponses,        \* history: pages received and aggregated
    lastPage,             \* history: pageInfo of the last page received
    served,               \* history: the owners served, and per owner the
                          \* sum of the balances served
    writes,               \* history: completed fs.writeFile calls
    conv                  \* the unit converter applied on its own

vars == <<argv, pc, err, airdropAmount, excludedAddresses, decimals, balances,
          cursor, inflight, rows, airdropRawByAddress, pending, file,
          metaRequests, pageRequests, pageResponses, lastPage, served,
          writes, conv>>

runVars == <<argv, pc, err, airdropAmount, excludedAddresses, decimals,
             balances, cursor, inflight, rows, airdropRawByAddress, pending,
             file, metaRequests, pageRequests, pageResponses, lastPage,
             served, writes>>

ConvIdle == [stage |-> "idle", raw |-> 0, decimals |-> 0, text |-> <<>>,
             back |-> [err |-> "none", value |-> 0]]

\* airdropRawByAddress: null, or a Map.
NullMap == [isNull |-> TRUE, entries |-> <<>>]
SomeMap(m) == [isNull |-> FALSE, entries |-> m]

\* holders.csv before it is written.
NoFile == [header |-> "", lines |-> <<>>]

NoPage == [hasNextPage |-> "none", endCursor |-> Null]

Init ==
    /\ argv \in Argvs
    /\ pc = "start"
    /\ err = "none"
    /\ airdropAmount = Null
    /\ excludedAddresses = {}
    /\ decimals = 0
    /\ balances = <<>>
    /\ cursor = Null
    /\ inflight = Null
    /\ rows = <<>>
    /\ airdropRawByAddress = NullMap
    /\ pending = NoFile
    /\ file = NoFile
    /\ metaRequests = 0
    /\ pageRequests = 0
    /\ pageResponses = 0
    /\ lastPage = NoPage
    /\ served = [totals |-> [o \in Owners |-> 0], owners |-> {}]
    /\ writes = 0
    /\ conv = ConvIdle

---------------------------------------------------------------------------
(* The pieces of main. *)

\* The for loop over connection.nodes from node i on: the Map afterwards, and
\* the TypeError a node without owner address raises (the Map keeps what the
\* nodes before it added).
\* (AddNodesOverwrite: the loop as it would be with "balances.set(address,
\* rawBalance)".)
RECURSIVE AddNodesOverwrite(_, _, _)
AddNodesOverwrite(m, nodes, i) ==
    IF i > Len(nodes) THEN [err |-> "none", balances |-> m]
    ELSE IF nodes[i].address = Null THEN [err |-> "TypeError", balances |-> m]
    ELSE AddNodesOverwrite(MapSet(m, nodes[i].address, nodes[i].balance),
                           nodes, i + 1)

RECURSIVE AddNodes(_, _, _)
AddNodes(m, nodes, i) ==
    IF i > Len(nodes) THEN [err |-> "none", balances |-> m]
    ELSE IF nodes[i].address = Null THEN [err |-> "TypeError", balances |-> m]
    ELSE LET address == nodes[i].address
             rawBalance == nodes[i].balance
         IN AddNodes(MapSet(m, address, MapGet(m, address) + rawBalance),
                     nodes, i + 1)

\* One row put into an already sorted sequence of rows, behind every row whose
\* balance is at least its own (Array.prototype.sort is stable).
InsertRow(sorted, row) ==
    LET n == Cardinality({k \in 1..Len(sorted) : sorted[k].rawBalance >= row.rawBalance})
    IN SubSeq(sorted, 1, n) \o <<row>> \o SubSeq(sorted, n + 1, Len(sorted))

RECURSIVE SortedPrefix(_, _)
SortedPrefix(entries, n) ==
    IF n = 0 THEN <<>>
    ELSE InsertRow(SortedPrefix(entries, n - 1),
                   [address |-> entries[n].address,
                    rawBalance |-> entries[n].value])

\* Array.from(balances.entries()).map(...).sort(...): by descending balance.
\* The rows as they would be without the sort.
RowsUnsorted(m) ==
    [k \in 1..Len(m) |-> [address |-> m[k].address, rawBalance |-> m[k].value]]

Rows(m) == SortedPrefix(m, Len(m))

\* The test as it would be without toLowerCase.
IsExcludedCaseSensitive(row, excluded) == row.address \in excluded

\* excludedAddresses.has(row.address.toLowerCase())
IsExcluded(row, excluded) == toLowerCase(row.address) \in excluded

EligibleRows(rws, excluded) ==
    SelectSeq(rws, LAMBDA row : ~IsExcluded(row, excluded))

\* The reduce as it would be with "acc = row.rawBalance".
SumBalancesLast(rws) ==
    IF rws = <<>> THEN 0 ELSE rws[Len(rws)].rawBalance

\* eligibleRows.reduce((acc, row) => acc + row.rawBalance, 0n)
RECURSIVE SumBalances(_)
SumBalances(rws) ==
    IF rws = <<>> THEN 0 ELSE rws[1].rawBalance + SumBalances(Tail(rws))

\* The share as it would be rounded up.
ShareCeil(totalAirdropRaw, rawBalance, eligibleTotalRaw) ==
    (totalAirdropRaw * rawBalance + eligibleTotalRaw - 1) \div eligibleTotalRaw

\* (totalAirdropRaw * row.rawBalance) / eligibleTotalRaw on BigInts
Share(totalAirdropRaw, rawBalance, eligibleTotalRaw) ==
    (totalAirdropRaw * rawBalance) \div eligibleTotalRaw

\* The for loop over rows from row i on: the Map and the sum of the shares.
RECURSIVE ShareLoop(_, _, _, _, _, _)
ShareLoop(rws, i, excluded, totalAirdropRaw, eligibleTotalRaw, acc) ==
    IF i > Len(rws) THEN acc
    ELSE IF IsExcluded(rws[i], excluded)
    THEN ShareLoop(rws, i + 1, excluded, totalAirdropRaw, eligibleTotalRaw,
                   [map |-> MapSet(acc.map, rws[i].address, 0),
                    allocated |-> acc.allocated])
    ELSE LET share == Share(totalAirdropRaw, rws[i].rawBalance, eligibleTotalRaw)
         IN ShareLoop(rws, i + 1, excluded, totalAirdropRaw, eligibleTotalRaw,
                      [map |-> MapSet(acc.map, rws[i].address, share),
                       allocated |-> acc.allocated + share])

\* Lines 349-356 as they would be with the remainder given to the last row.
AddRemainderToLast(map, rws, eligible, remainder) ==
    IF remainder > 0 /\ Len(eligible) > 0
    THEN LET address == rws[Len(rws)].address
         IN MapSet(map, address, MapGet(map, address) + remainder)
    ELSE map

\* Lines 349-356: the remainder added to the first eligible row.
AddRemainder(map, rws, eligible, remainder) ==
    IF remainder > 0 /\ Len(eligible) > 0
    THEN LET firstEligibleAddress == eligible[1].address
         IN MapSet(map, firstEligibleAddress,
                   MapGet(map, firstEligibleAddress) + remainder)
    ELSE map

\* The body of "if (airdropAmount !== null)": the allocation Map, or the error.
Airdrop(rws, amount, dec, excluded) ==
    LET parsed == parseUnits(amount, dec)
        totalAirdropRaw == parsed.value
        eligible == EligibleRows(rws, excluded)
        eligibleTotalRaw == SumBalances(eligible)
        looped == ShareLoop(rws, 1, excluded, totalAirdropRaw, eligibleTotalRaw,
                            [map |-> <<>>, allocated |-> 0])
        remainder == totalAirdropRaw - looped.allocated
    IN IF parsed.err # "none" THEN [err |-> parsed.err, map |-> NullMap]
       ELSE IF eligibleTotalRaw = 0
       THEN [err |-> "NoEligibleHolders", map |-> NullMap]
       ELSE [err |-> "none",
             map |-> SomeMap(AddRemainder(looped.map, rws, eligible, remainder))]

\* The lines of the CSV: the header, then one line per row.
Lines(rws, dec, map) ==
    [header |-> IF map.isNull THEN "rank,address,balance"
                ELSE "rank,address,balance,airdrop_amount",
     lines |-> [i \in 1..Len(rws) |->
                  [rank |-> i,
                   address |-> rws[i].address,
                   balance |-> formatUnits(rws[i].rawBalance, dec),
                   airdrop |-> IF map.isNull THEN Null
                               ELSE formatUnits(MapGet(map.entries, rws[i].address),
                                                dec)]]]

---------------------------------------------------------------------------
(* The steps of main: each runs from one await to the next. *)

Fail(e) == pc' = "failed" /\ err' = e

\* Lines 313-377 as they would be if the allocation's error did not stop them.
FinishIgnoringErrors(m) ==
    LET rws == Rows(m)
        air == IF airdropAmount # Null
               THEN Airdrop(rws, airdropAmount, decimals, excludedAddresses)
               ELSE [err |-> "none", map |-> NullMap]
    IN /\ rows' = rws
       /\ airdropRawByAddress' = air.map
       /\ pending' = Lines(rws, decimals, air.map)
       /\ pc' = "writing"
       /\ err' = air.err

\* Lines 313-377: the rows, the allocation, the lines, and the call of
\* fs.writeFile; m is the Map the pagination loop leaves.
Finish(m) ==
    LET rws == Rows(m)
        air == IF airdropAmount # Null
               THEN Airdrop(rws, airdropAmount, decimals, excludedAddresses)
               ELSE [err |-> "none", map |-> NullMap]
    IN /\ rows' = rws
       /\ IF air.err # "none"
          THEN /\ Fail(air.err)
               /\ UNCHANGED <<airdropRawByAddress, pending>>
          ELSE /\ airdropRawByAddress' = air.map
               /\ pending' = Lines(rws, decimals, air.map)
               /\ pc' = "writing"
               /\ UNCHANGED err

\* Lines 271-278: parseCliArgs, then the metadata request is sent.
Start ==
    /\ pc = "start"
    /\ LET parsed == parseCliArgs(argv)
       IN IF parsed.err # "none"
          THEN /\ Fail(parsed.err)
               /\ UNCHANGED <<airdropAmount, excludedAddresses, metaRequests>>
          ELSE /\ airdropAmount' = parsed.airdropAmount
               /\ excludedAddresses' = parsed.excludedAddresses
               /\ metaRequests' = metaRequests + 1
               /\ pc' = "metadata"
               /\ UNCHANGED err
    /\ argv' = <<>>
    /\ UNCHANGED <<decimals, balances, cursor, inflight, rows,
                   airdropRawByAddress, pending, file, pageRequests,
                   pageResponses, lastPage, served, writes, conv>>

\* postGraphQL throws (the response is not ok, or fetch rejects) on the
\* metadata request.
MetadataFails ==
    /\ pc = "metadata"
    /\ Fail("HttpError")
    /\ UNCHANGED <<argv, airdropAmount, excludedAddresses, decimals, balances,
                   cursor, inflight, rows, airdropRawByAddress, pending, file,
                   metaRequests, pageRequests, pageResponses, lastPage, served, writes, conv>>

\* Lines 279-293: the metadata arrives (decimals an integer, or anything else,
\* which gives 0); the Map is created and the first page is requested.
MetadataArrives ==
    /\ pc = "metadata"
    /\ \E isInteger \in BOOLEAN, d \in 0..MaxDecimals :
           decimals' = IF isInteger THEN d ELSE 0
    /\ balances' = <<>>
    /\ cursor' = Null
    /\ inflight' = Null
    /\ pageRequests' = pageRequests + 1
    /\ pc' = "page"
    /\ UNCHANGED <<argv, err, airdropAmount, excludedAddresses, rows,
                   airdropRawByAddress, pending, file, metaRequests,
                   pageResponses, lastPage, served, writes, conv>>

\* postGraphQL throws on a page request.
PageFails ==
    /\ pc = "page"
    /\ Fail("HttpError")
    /\ UNCHANGED <<argv, airdropAmount, excludedAddresses, decimals, balances,
                   cursor, inflight, rows, airdropRawByAddress, pending, file,
                   metaRequests, pageRequests, pageResponses, lastPage, served, writes, conv>>

\* Lines 295-298: the payload has no data.objects.
PageMalformed ==
    /\ pc = "page"
    /\ Fail("MalformedResponse")
    /\ UNCHANGED <<argv, airdropAmount, excludedAddresses, decimals, balances,
                   cursor, inflight, rows, airdropRawByAddress, pending, file,
                   metaRequests, pageRequests, pageResponses, lastPage, served, writes, conv>>

\* What the source has served so far, as the run took it in: the nodes of a page
\* from node i on, up to the first node without owner address.
RECURSIVE Serve(_, _, _)
Serve(h, nodes, i) ==
    IF i > Len(nodes) THEN h
    ELSE IF nodes[i].address = Null THEN h
    ELSE Serve([totals |-> [h.totals EXCEPT ![nodes[i].address] =
                                @ + nodes[i].balance],
                owners |-> h.owners \cup {nodes[i].address}],
               nodes, i + 1)

\* The cursor as it would be if line 310 were missing.
NextCursorStale(cur, pageInfo) == cur

\* cursor = connection.pageInfo.endCursor
NextCursor(cur, pageInfo) == pageInfo.endCursor

\* Lines 295-311 and, after the last page, 313-377: a page arrives; its nodes
\* are added to the Map; then the next page is requested with the page's
\* endCursor, or the loop ends and the run goes on to fs.writeFile.  The
\* source serves at most MaxPages pages.
PageArrives ==
    /\ pc = "page"
    /\ \E nodes \in Pages, pageInfo \in PageInfos :
         LET hasNextPage == pageInfo.hasNextPage
             added == AddNodes(balances, nodes, 1)
         IN /\ hasNextPage = "true" => pageRequests < MaxPages
            /\ balances' = added.balances
            /\ served' = Serve(served, nodes, 1)
            /\ IF added.err # "none"
               THEN /\ Fail(added.err)
                    /\ UNCHANGED <<cursor, inflight, pageRequests, pageResponses,
                                   lastPage, rows, airdropRawByAddress, pending>>
               ELSE /\ pageResponses' = pageResponses + 1
                    /\ lastPage' = pageInfo
                    /\ IF hasNextPage = "true"
                       THEN /\ cursor' = NextCursor(cursor, pageInfo)
                            /\ inflight' = NextCursor(cursor, pageInfo)
                            /\ pageRequests' = pageRequests + 1
                            /\ pc' = "page"
                            /\ UNCHANGED <<err, rows, airdropRawByAddress,
                                           pending>>
                       ELSE /\ Finish(added.balances)
                            /\ UNCHANGED <<cursor, inflight, pageRequests>>
    /\ UNCHANGED <<argv, airdropAmount, excludedAddresses, decimals, file,
                   metaRequests, writes, conv>>

\* Lines 377-378: fs.writeFile has written holders.csv.
WriteFile ==
    /\ pc = "writing"
    /\ file' = pending
    /\ writes' = writes + 1
    /\ pc' = "done"
    /\ UNCHANGED <<argv, err, airdropAmount, excludedAddresses, decimals,
                   balances, cursor, inflight, rows, airdropRawByAddress,
                   pending, metaRequests, pageRequests, pageResponses, lastPage,
                   served, conv>>

Next ==
    \/ Start
    \/ MetadataFails
    \/ MetadataArrives
    \/ PageFails
    \/ PageMalformed
    \/ PageArrives
    \/ WriteFile

Spec == Init /\ [][Next]_vars

---------------------------------------------------------------------------
(* The allocation on its own: main at line 313, the pagination loop over,    *)
(* with any command line that asks for an airdrop, any decimals and any Map   *)
(* of at most MaxHolders owners (one page can hold them all).                 *)

HolderMaps ==
    {m \in SeqsUpTo([address : Owners, value : 0..MaxBal], MaxHolders) :
        \A i, j \in 1..Len(m) : m[i].address = m[j].address => i = j}

AllocInit ==
    /\ argv = <<>>
    /\ pc = "paged"
    /\ err = "none"
    /\ \E a \in AirdropArgvs :
          /\ airdropAmount = parseCliArgs(a).airdropAmount
          /\ excludedAddresses = parseCliArgs(a).excludedAddresses
    /\ decimals \in 0..MaxDecimals
    /\ balances \in HolderMaps
    /\ cursor = Null
    /\ inflight = Null
    /\ rows = <<>>
    /\ airdropRawByAddress = NullMap
    /\ pending = NoFile
    /\ file = NoFile
    /\ metaRequests = 1
    /\ pageRequests = 1
    /\ pageResponses = 1
    /\ lastPage = [hasNextPage |-> "absent", endCursor |-> Null]
    /\ served = [totals |-> [o \in Owners |-> MapGet(balances, o)],
                 owners |-> MapKeys(balances)]
    /\ writes = 0
    /\ conv = ConvIdle

\* Lines 313-377 from there.
AfterPagination ==
    /\ pc = "paged"
    /\ Finish(balances)
    /\ UNCHANGED <<argv, airdropAmount, excludedAddresses, decimals, balances,
                   cursor, inflight, file, metaRequests, pageRequests,
                   pageResponses, lastPage, served, writes, conv>>

AllocNext ==
    \/ AfterPagination
    \/ WriteFile

AllocSpec == AllocInit /\ [][AllocNext]_vars

---------------------------------------------------------------------------
(* The unit converter on its own: formatUnits applied to any raw amount and  *)
(* decimals, then parseUnits applied to the text it gave.                     *)

ConvInit ==
    /\ argv = <<>>
    /\ pc = "none"
    /\ err = "none"
    /\ airdropAmount = Null
    /\ excludedAddresses = {}
    /\ decimals = 0
    /\ balances = <<>>
    /\ cursor = Null
    /\ inflight = Null
    /\ rows = <<>>
    /\ airdropRawByAddress = NullMap
    /\ pending = NoFile
    /\ file = NoFile
    /\ metaRequests = 0
    /\ pageRequests = 0
    /\ pageResponses = 0
    /\ lastPage = NoPage
    /\ served = [totals |-> [o \in Owners |-> 0], owners |-> {}]
    /\ writes = 0
    /\ \E r \in 0..MaxRaw, d \in 0..MaxConvDecimals :
          conv = [stage |-> "raw", raw |-> r, decimals |-> d, text |-> <<>>,
                  back |-> [err |-> "none", value |-> 0]]

ConvFormat ==
    /\ conv.stage = "raw"
    /\ conv' = [conv EXCEPT !.stage = "text",
                            !.text = formatUnits(conv.raw, conv.decimals)]
    /\ UNCHANGED runVars

ConvParse ==
    /\ conv.stage = "text"
    /\ conv' = [conv EXCEPT !.stage = "back",
                            !.back = parseUnits(conv.text, conv.decimals)]
    /\ UNCHANGED runVars

ConvNext ==
    \/ ConvFormat
    \/ ConvParse

ConvSpec == ConvInit /\ [][ConvNext]_vars

---------------------------------------------------------------------------
(* What the claims speak of. *)

\* The allocation is done: airdropRawByAddress holds a Map.
Allocated == ~airdropRawByAddress.isNull

\* The sum of the values of a Map.
RECURSIVE MapSum(_)
MapSum(m) == IF m = <<>> THEN 0 ELSE m[1].value + MapSum(Tail(m))

\* The requested total, in raw units.
TotalRaw == parseUnits(airdropAmount, decimals).value

AllocationOf(address) == MapGet(airdropRawByAddress.entries, address)

\* Row k equals no excluded address, compared without regard to case.
RowEligible(k) ==
    \A e \in excludedAddresses : toLowerCase(rows[k].address) # toLowerCase(e)

EligibleIdx == {k \in 1..Len(rows) : RowEligible(k)}

RECURSIVE EligibleSumUpTo(_)
EligibleSumUpTo(n) ==
    IF n = 0 THEN 0
    ELSE EligibleSumUpTo(n - 1) + (IF RowEligible(n) THEN rows[n].rawBalance ELSE 0)

EligibleTotal == EligibleSumUpTo(Len(rows))

FloorShare(k) == (TotalRaw * rows[k].rawBalance) \div EligibleTotal

RECURSIVE FloorSumUpTo(_)
FloorSumUpTo(n) ==
    IF n = 0 THEN 0
    ELSE FloorSumUpTo(n - 1) + (IF RowEligible(n) THEN FloorShare(n) ELSE 0)

Remainder == TotalRaw - FloorSumUpTo(Len(rows))

FirstEligible == CHOOSE k \in EligibleIdx : \A j \in EligibleIdx : k <= j

LastPageSeen == lastPage.hasNextPage \in {"false", "absent"}

\* The Map holds what the source served: one entry per owner, with the sum of
\* the owner's balances.
Aggregated ==
    /\ Len(balances) = Cardinality(served.owners)
    /\ MapKeys(balances) = served.owners
    /\ \A o \in served.owners : MapGet(balances, o) = served.totals[o]

---------------------------------------------------------------------------
(* The claims. *)

\* C1 (allocation exactness): once lines 313-357 have run with an amount that
\* parses and non-excluded rows whose balances sum to more than 0, the
\* allocation Map exists, has one entry per row, and its values sum to the
\* requested total exactly.
C1_AllocationExact ==
    (/\ pc \in {"writing", "done", "failed"}
     /\ airdropAmount # Null
     /\ parseUnits(airdropAmount, decimals).err = "none"
     /\ EligibleTotal > 0)
    => /\ Allocated
       /\ err = "none"
       /\ Len(airdropRawByAddress.entries) = Len(rows)
       /\ MapKeys(airdropRawByAddress.entries)
            = {rows[k].address : k \in 1..Len(rows)}
       /\ MapSum(airdropRawByAddress.entries) = TotalRaw

\* Three rows, one of them excluded with a balance of its own, and floors that
\* leave a remainder.
C1_Witness ==
    /\ pc = "done"
    /\ Allocated
    /\ Len(rows) = 3
    /\ \E k \in 1..Len(rows) : ~RowEligible(k) /\ rows[k].rawBalance > 0
    /\ Remainder > 0
    /\ MapSum(airdropRawByAddress.entries) = TotalRaw

\* C2 (excluded-zero): after the allocation, every row whose address equals an
\* excluded address without regard to case has allocation 0, the remainder
\* included.
C2_ExcludedZero ==
    Allocated =>
        \A k \in 1..Len(rows) :
            ~RowEligible(k) => AllocationOf(rows[k].address) = 0

\* The first-ranked row is excluded through an address that differs from it
\* in case, and there is a remainder to hand out.
C2_Witness ==
    /\ Allocated
    /\ Len(rows) >= 2
    /\ ~RowEligible(1)
    /\ toLowerCase(rows[1].address) # rows[1].address
    /\ rows[1].rawBalance > 0
    /\ Remainder > 0
    /\ AllocationOf(rows[1].address) = 0

\* C3 (allocation boundedness): after the allocation, every value of the Map is
\* at least 0 and at most the requested total.
C3_Bounded ==
    Allocated =>
        \A k \in 1..Len(airdropRawByAddress.entries) :
            /\ airdropRawByAddress.entries[k].value >= 0
            /\ airdropRawByAddress.entries[k].value <= TotalRaw

\* A remainder was absorbed, one non-excluded row holds more than another.
C3_Witness ==
    /\ Allocated
    /\ TotalRaw > 0
    /\ Remainder > 0
    /\ Cardinality(EligibleIdx) >= 2
    /\ AllocationOf(rows[FirstEligible].address) > FloorShare(FirstEligible)
    /\ \E k \in EligibleIdx : AllocationOf(rows[k].address) = 0

\* C9 (remainder assignment): the first non-excluded row in rank order gets its
\* floor plus the whole remainder, every other non-excluded row its floor.
C9_Remainder ==
    Allocated =>
        \A k \in EligibleIdx :
            AllocationOf(rows[k].address)
              = FloorShare(k) + (IF k = FirstEligible THEN Remainder ELSE 0)

\* Three equal balances and a total of 10: 4, 3, 3.
C9_Witness ==
    /\ Allocated
    /\ Len(rows) = 3
    /\ EligibleIdx = {1, 2, 3}
    /\ rows[1].rawBalance = rows[2].rawBalance
    /\ rows[2].rawBalance = rows[3].rawBalance
    /\ TotalRaw = 10
    /\ AllocationOf(rows[1].address) = 4
    /\ AllocationOf(rows[2].address) = 3
    /\ AllocationOf(rows[3].address) = 3

\* C10 (monotone allocation): of two non-excluded rows, the one ranked first
\* has the balance and the allocation that is at least the other's, and a row
\* with the smaller balance never gets more.
C10_Monotone ==
    Allocated =>
        \A i, j \in EligibleIdx :
            /\ i < j => /\ rows[i].rawBalance >= rows[j].rawBalance
                        /\ AllocationOf(rows[i].address)
                             >= AllocationOf(rows[j].address)
            /\ rows[i].rawBalance < rows[j].rawBalance
                 => AllocationOf(rows[i].address) <= AllocationOf(rows[j].address)

\* The Map listed the smaller balance first; after the sort the larger one
\* ranks first and takes the remainder.
C10_Witness ==
    /\ Allocated
    /\ Len(balances) >= 2
    /\ balances[1].value < balances[2].value
    /\ EligibleIdx = 1..Len(rows)
    /\ Remainder > 0
    /\ AllocationOf(rows[1].address) > AllocationOf(rows[2].address)

\* C4 (unit round trip): parseUnits(formatUnits(r, d), d) is r, without error.
C4_RoundTrip ==
    conv.stage = "back" =>
        /\ conv.back.err = "none"
        /\ conv.back.value = conv.raw

\* 5 at 3 decimals is "0.005" (left padding), and parses back to 5.
C4_Witness ==
    /\ conv.stage = "back"
    /\ conv.raw = 5
    /\ conv.decimals = 3
    /\ conv.text = <<"0", ".", "0", "0", "5">>
    /\ conv.back.value = 5

\* C5 (aggregation): when the pagination is over, the Map has one entry per
\* owner served, holding the sum of the owner's balances over all pages.
C5_Aggregation == LastPageSeen => Aggregated

\* One owner served on two pages, 1 and then 2.
C5_Witness ==
    /\ LastPageSeen
    /\ pageResponses = 2
    /\ Len(balances) = 1
    /\ balances[1].value = 3

\* C6 (all or nothing): the file is written at most once, only by a run that
\* got through pagination and allocation without error; a failed run never
\* called fs.writeFile.
C6_AllOrNothing ==
    /\ writes <= 1
    /\ (err # "none") <=> (pc = "failed")
    /\ pending # NoFile =>
          /\ LastPageSeen
          /\ pageRequests = pageResponses
          /\ err = "none"
          /\ airdropAmount # Null => Allocated
    /\ file # NoFile => pc = "done" /\ writes = 1 /\ file = pending
    /\ pc = "failed" => file = NoFile /\ writes = 0 /\ pending = NoFile

\* Two pages were aggregated, then no holder was eligible.
C6_Witness ==
    /\ pc = "failed"
    /\ err = "NoEligibleHolders"
    /\ pageResponses = 2
    /\ Len(balances) >= 1
    /\ file = NoFile

\* C7 as claimed: an amount that does not parse aborts the run before any
\* request is sent.
C7_NoRequestBeforeAmountError ==
    err \in {"InvalidAmount", "PrecisionOverflow"} =>
        metaRequests = 0 /\ pageRequests = 0

\* C7 as amended: an amount that does not parse aborts the run only after the
\* metadata request and every page request, and before the allocation and the
\* write.
C7_AmountErrorAfterPagination ==
    err \in {"InvalidAmount", "PrecisionOverflow"} =>
        /\ pc = "failed"
        /\ metaRequests = 1
        /\ pageRequests >= 1
        /\ pageRequests = pageResponses
        /\ LastPageSeen
        /\ ~Allocated
        /\ pending = NoFile
        /\ file = NoFile

\* Two pages were fetched before the amount turned out to have too many
\* decimal places.
C7_Witness ==
    /\ err = "PrecisionOverflow"
    /\ pageResponses = 2
    /\ metaRequests = 1

\* The state part of C8: a request in flight carries null if it is the first
\* and the last page's endCursor otherwise, is sent only when every page
\* before it is in the Map and said hasNextPage, and none is sent after a page
\* that did not.
PageProtocol ==
    /\ pageRequests \in {pageResponses, pageResponses + 1}
    /\ pc = "page" =>
          /\ pageRequests = pageResponses + 1
          /\ inflight = cursor
          /\ pageResponses = 0 => inflight = Null
          /\ pageResponses > 0 =>
                lastPage.hasNextPage = "true" /\ inflight = lastPage.endCursor
          /\ Aggregated
    /\ LastPageSeen => pc # "page" /\ pageRequests = pageResponses
    /\ pc \in {"writing", "done"} => LastPageSeen

\* The step part of C8: a step sends at most one request; it sends one only
\* as the first request or on taking in a page that said hasNextPage, with
\* that page's endCursor; and a page taken in is counted once.
PageStep ==
    /\ pageRequests' \in {pageRequests, pageRequests + 1}
    /\ pageResponses' \in {pageResponses, pageResponses + 1}
    /\ pageRequests' = pageRequests + 1 =>
          /\ pc' = "page"
          /\ IF pc = "page"
             THEN /\ pageResponses' = pageResponses + 1
                  /\ lastPage'.hasNextPage = "true"
                  /\ inflight' = lastPage'.endCursor
             ELSE /\ pageRequests = 0
                  /\ inflight' = Null
    /\ pageResponses' = pageResponses + 1 =>
          /\ pc = "page"
          /\ lastPage'.hasNextPage # "true" => pc' # "page"

\* How far a run has come: every step takes it further, and a source that
\* reports a last page after at most MaxPages pages bounds it.
Progress ==
    pageRequests + (CASE pc = "start" -> 0
                      [] pc = "metadata" -> 1
                      [] pc = "page" -> 2
                      [] pc = "writing" -> MaxPages + 3
                      [] OTHER -> MaxPages + 4)

\* C8 (pagination protocol): the requests follow the cursors one page at a
\* time, as PageProtocol and PageStep say; and the run ends when the source
\* reports a last page after finitely many pages: every step takes the run
\* further towards a bound, and a run that has not ended can take a step.
C8_Pagination ==
    /\ []PageProtocol
    /\ [][PageStep /\ Progress' > Progress]_vars
    /\ [](Progress <= 2 * MaxPages + 4)
    /\ [](pc \in {"done", "failed"} \/ ENABLED Next)

\* The second request is in flight, carrying the first page's endCursor.
C8_Witness ==
    /\ pc = "page"
    /\ pageResponses = 1
    /\ inflight = <<"c2">>
    /\ Len(balances) = 1

====
